---- MODULE Spec2Model ----
(***************************************************************************)
(* Model of DPsim::InterfaceVillas (src/src/InterfaceVillas.cpp): the      *)
(* sample-based adapter between the simulator and a VILLASnode node.       *)
(*                                                                         *)
(* The adapter is single-threaded.  One call of the host (open, close,     *)
(* writeValues, readValues) is in progress at a time; pc is the position   *)
(* of that call.  The node (read/write return codes, exceptions), the     *)
(* host's import/export hooks and the wall clock are the environment:      *)
(* their answers are drawn nondeterministically.                           *)
(***************************************************************************)
EXTENDS Integers, Sequences, FiniteSets, TLC

\* ---------------------------------------------------------------- bounds
MaxQueueLenght == 3   \* queueLenght passed to the constructor is 1..MaxQueueLenght
MaxRetry       == 1   \* would-block (0) answers of the node per call
MaxData        == 1   \* exporters write values 0..MaxData
MaxOpens       == 2   \* open() calls per run
NumHooks       == 2   \* exporters, and importers, registered by the host
MaxSampleLenght == 1  \* sampleLenght passed to the constructor: values per sample
MaxFairQueueLenght == 2   \* queueLenght is 1..MaxFairQueueLenght under FairSpec

NumExports == NumHooks
NumImports == NumHooks

VARIABLES
  mQueueLenght,   \* constructor argument queueLenght
  mOpened,        \* InterfaceSampleBased::mOpened
  mSequence,      \* next sequence number
  mLastSample,    \* the Last-Known-Good sample (NoSample = nullptr)
  clock,          \* CLOCK_REALTIME: readings taken so far (the t-th reading is t)
  poolState,      \* mSamplePool: "none" | "initialized" | "destroyed"
  poolInflight,   \* samples taken from mSamplePool and not given back
  nodeState,      \* mNode: "none" (no handle) | "created" | "parsed" | "checked" |
                  \*   "prepared" | "started" | "stopped"
  pc,             \* position of the call in progress
  callKind,       \* the last call entered: "none" | "construct" | "open" | "close" |
                  \*   "write" | "read"
  lastExit,       \* how the last call ended: "none" | "return" | "throw"
  sample,         \* local Sample* of writeValues (NoSample = nullptr)
  done,           \* local done of writeValues
  ret,            \* local ret: "zero" | "pos" | "neg"
  expIdx,         \* next exporter of mExports to run (writeValues)
  retries,        \* would-block answers given in this call
  handed,         \* samples passed to mNode->write in this call, in order
  wvAcquired,     \* sample_alloc successes in this writeValues call
  wvReleased,     \* sample_decref calls in this writeValues call
  seqBefore,      \* mSequence when this writeValues call started
  tick,           \* the writeValues call that just ended (NoTick = none, or another call since)
  prevTick,       \* the sample passed to mNode->write by the writeValues call before
  hist,           \* counts over the finished writeValues calls since open
  rdHeld,         \* local sample of readValues is non-null (read produced it)
  rdReleases,     \* sample_decref calls on it in this readValues call
  impIdx,         \* next importer of mImports to run (readValues)
  impThrew,       \* an importer raised in this readValues call
  opens,          \* open() calls so far
  nodeStops,      \* mNode->stop() calls so far
  poolDestroys,   \* pool_destroy calls so far
  ctorSteps,      \* calls the constructor made, in order, the failing one included
  ctorError,      \* exception the constructor raised: "none" | "JsonError" | "RuntimeError"
  blocking,       \* argument of the readValues call in progress
  invoked         \* hooks (exporters or importers) invoked in this call, in order

vars == << mQueueLenght, mOpened, mSequence, mLastSample, clock, poolState, poolInflight,
           nodeState, pc, callKind, lastExit, sample, done, ret, expIdx, retries,
           handed, wvAcquired, wvReleased, seqBefore, tick, prevTick, hist, rdHeld,
           rdReleases,
           impIdx, impThrew, opens, nodeStops, poolDestroys, ctorSteps, ctorError,
           blocking, invoked >>

lifeVars  == << mOpened, poolState, nodeState, opens, nodeStops, poolDestroys >>
readVars  == << rdHeld, rdReleases, impIdx, impThrew, blocking >>
ctorVars  == << ctorSteps, ctorError >>
writeVars == << sample, done, ret, expIdx, handed, wvAcquired, wvReleased, seqBefore >>
histVars  == << tick, prevTick, hist >>

\* ---------------------------------------------------------------- samples
HAS_DATA == "HAS_DATA"
NoSample == [null |-> TRUE]

Slots  == 1..MaxSampleLenght
Values == 0..MaxData

\* the hooks in registration order: the i-th registered hook has id i
mExports == [i \in 1..NumExports |-> i]
mImports == [i \in 1..NumImports |-> i]

\* for (auto exp : mExports): the hook run by the i-th iteration
ExportAt_Reversed(i) == mExports[NumExports + 1 - i]
ExportAt(i) == mExports[i]

\* for (auto imp : mImports): the hook run by the i-th iteration
ImportAt(i) == mImports[i]

\* the data slot the host bound exporter h to
SlotOf(h) == ((h - 1) % MaxSampleLenght) + 1

\* node::sample_alloc: an initialized sample of the pool's capacity
FreshSample == [sequence |-> 0, flags |-> {}, ts |-> 0, data |-> [i \in Slots |-> 0]]

\* open(): the state given to the freshly allocated mLastSample
OpenSample == [FreshSample EXCEPT !.sequence = 0, !.ts = 0, !.data = [i \in Slots |-> 0]]

\* node::sample_copy(dst, src): field copy including data
sample_copy(dst, src) == [dst EXCEPT !.sequence = src.sequence, !.flags = src.flags,
                                     !.ts = src.ts, !.data = src.data]

\* writeValues: sample->sequence = mSequence++  (value stored in the sample)
FrameSequence_Pre(mSeq) == mSeq + 1
FrameSequence(mSeq) == mSeq

\* writeValues: sample->sequence = mSequence++  (value left in mSequence)
NextSequence_Stuck(mSeq) == mSeq
NextSequence(mSeq) == mSeq + 1

\* writeValues: sequence, HAS_DATA flag and origin timestamp of the framed sample
Frame(smp, mSeq, now) == [smp EXCEPT !.sequence = FrameSequence(mSeq),
                                     !.flags = smp.flags \cup {HAS_DATA},
                                     !.ts = now]

\* writeValues, do { ret = mNode->write(&sample, 1); } while (ret == 0): the
\* sample the loop passes again after a would-block answer
RetrySample_Reframe(smp) == [smp EXCEPT !.sequence = @ + 1]
RetrySample(smp) == smp

\* writeValues, catch block: if (!done) sample = mLastSample
CatchSample_Keep(isDone, smp, last) == smp
CatchSample(isDone, smp, last) == IF ~isDone THEN last ELSE smp

\* readValues, catch block: if (sample) sample_decref(sample)
CatchReleases_None(held) == 0
CatchReleases(held) == IF held THEN 1 ELSE 0

\* readValues, success path: sample_decref(sample) after the importers
ReturnReleases == 1

\* a pool of mQueueLenght blocks has a free block
PoolHasFree == poolInflight < mQueueLenght

\* ---------------------------------------------------------------- history
\* (read by the properties only; no action's guard or effect on the program
\* state depends on it)
NoTick == [none |-> TRUE]

Max(a, b) == IF a >= b THEN a ELSE b

\* nFramed: calls that completed framing; nSucc: framed calls whose node
\* write answered a positive code; lastSucc: the sequence number of the last
\* of those; maxFramed: the largest sequence number framed; maxHanded: the
\* largest sequence number passed to mNode->write  (-1 = none yet)
NoHist == [nFramed |-> 0, nSucc |-> 0, lastSucc |-> -1, maxFramed |-> -1, maxHanded |-> -1]

\* what one finished writeValues call did
TickRecord(h, r, exit) ==
  [smp     |-> h[Len(h)],      \* the sample passed to the last mNode->write
   nHanded |-> Len(h),
   framed  |-> done,
   ret     |-> r,
   exit    |-> exit,
   seqIn   |-> seqBefore,
   seqOut  |-> mSequence,
   histIn  |-> hist,
   zeros    |-> retries,              \* would-block answers in the call
   viaCatch |-> pc = "wv_fbwrite"]    \* the call ended inside the catch block

HistAfter(t) ==
  [nFramed   |-> hist.nFramed + (IF t.framed THEN 1 ELSE 0),
   nSucc     |-> hist.nSucc + (IF t.framed /\ t.ret = "pos" THEN 1 ELSE 0),
   lastSucc  |-> IF t.framed /\ t.ret = "pos" THEN t.smp.sequence ELSE hist.lastSucc,
   maxFramed |-> IF t.framed THEN Max(hist.maxFramed, t.smp.sequence) ELSE hist.maxFramed,
   maxHanded |-> Max(hist.maxHanded, t.smp.sequence)]

\* a writeValues call ends (returns or throws): record it
EndTick(t) ==
  /\ tick' = t
  /\ hist' = HistAfter(t)
  /\ UNCHANGED prevTick

\* the next call is entered: of the call recorded in tick only the sample it
\* passed to mNode->write is kept
ShelveTick ==
  /\ tick' = NoTick
  /\ prevTick' = IF tick = NoTick THEN prevTick ELSE [smp |-> tick.smp]
  /\ UNCHANGED hist

\* the process ends (std::exit or a fault): no call is left to observe
DropTicks ==
  /\ tick' = NoTick
  /\ prevTick' = NoTick
  /\ hist' = NoHist

\* locals of a call that is over are dead: every call entry starts from these
ResetWriteLocals ==
  /\ sample' = NoSample
  /\ done' = FALSE
  /\ ret' = "zero"
  /\ expIdx' = 1
  /\ handed' = << >>
  /\ wvAcquired' = 0
  /\ wvReleased' = 0
  /\ seqBefore' = mSequence
  /\ invoked' = << >>

ResetReadLocals ==
  /\ rdHeld' = FALSE
  /\ rdReleases' = 0
  /\ impIdx' = 1
  /\ impThrew' = FALSE
  /\ blocking' = FALSE

\* ---------------------------------------------------------------- constructor
\* the calls of the constructor body, in program order
CtorOrder_JsonFirst ==
  << "node_type_lookup", "json_loads", "make_unique", "parse", "check", "memory_init",
     "pool_init", "prepare" >>
CtorOrder ==
  << "node_type_lookup", "make_unique", "json_loads", "parse", "check", "memory_init",
     "pool_init", "prepare" >>

\* the calls whose result the constructor tests
CtorFailable ==
  { "node_type_lookup", "json_loads", "parse", "check", "memory_init", "pool_init",
    "prepare" }

\* what the constructor does when the call fails: throw JsonError, throw
\* RuntimeError, or log and std::exit(1)
CtorFailure(step) ==
  CASE step = "json_loads"  -> "JsonError"
    [] step = "memory_init" -> "RuntimeError"
    [] OTHER                -> "exit"

\* the calls among the first n of the constructor
CtorRan(n) == { CtorOrder[i] : i \in 1..n }

\* mNode after the calls in S succeeded
NodeAfter(S) ==
  IF "prepare" \in S THEN "prepared"
  ELSE IF "check" \in S THEN "checked"
  ELSE IF "parse" \in S THEN "parsed"
  ELSE IF "make_unique" \in S THEN "created"
  ELSE "none"

\* mSamplePool after the calls in S succeeded
PoolAfter(S) == IF "pool_init" \in S THEN "initialized" ELSE "none"

\* ---------------------------------------------------------------- Init
\* The state when the constructor body is entered: the members are
\* initialized from the arguments, no node handle, no pool.
Init ==
  /\ mQueueLenght \in 1..MaxQueueLenght
  /\ mOpened = FALSE
  /\ mSequence = 0
  /\ mLastSample = NoSample
  /\ clock = 0
  /\ poolState = "none"
  /\ poolInflight = 0
  /\ nodeState = "none"
  /\ pc = "new"
  /\ callKind = "none"
  /\ lastExit = "none"
  /\ sample = NoSample
  /\ done = FALSE
  /\ ret = "zero"
  /\ expIdx = 1
  /\ retries = 0
  /\ handed = << >>
  /\ wvAcquired = 0
  /\ wvReleased = 0
  /\ seqBefore = 0
  /\ tick = NoTick
  /\ prevTick = NoTick
  /\ hist = NoHist
  /\ rdHeld = FALSE
  /\ rdReleases = 0
  /\ impIdx = 1
  /\ impThrew = FALSE
  /\ opens = 0
  /\ nodeStops = 0
  /\ poolDestroys = 0
  /\ ctorSteps = << >>
  /\ ctorError = "none"
  /\ blocking = FALSE
  /\ invoked = << >>

\* constructor: every call succeeds; node parsed, checked and prepared, pool
\* of queueLenght blocks initialized, nothing allocated
ConstructOk ==
  /\ pc = "new"
  /\ ctorSteps' = CtorOrder
  /\ nodeState' = NodeAfter(CtorRan(Len(CtorOrder)))
  /\ poolState' = PoolAfter(CtorRan(Len(CtorOrder)))
  /\ callKind' = "construct"
  /\ lastExit' = "return"
  /\ pc' = "idle"
  /\ UNCHANGED << mQueueLenght, mOpened, mSequence, mLastSample, poolInflight, retries,
                  opens, nodeStops, poolDestroys, ctorError, invoked >>
  /\ UNCHANGED readVars /\ UNCHANGED writeVars /\ UNCHANGED histVars
  /\ UNCHANGED clock

\* constructor: the k-th call fails.  json_loads and memory::init make the
\* constructor throw: the members built so far are destroyed, mNode (a
\* unique_ptr) with its node.  The other calls end in std::exit(1).
ConstructFails ==
  /\ pc = "new"
  /\ \E k \in 1..Len(CtorOrder) :
       /\ CtorOrder[k] \in CtorFailable
       /\ ctorSteps' = SubSeq(CtorOrder, 1, k)
       /\ poolState' = PoolAfter(CtorRan(k - 1))
       /\ IF CtorFailure(CtorOrder[k]) = "exit"
            THEN /\ pc' = "exited"
                 /\ nodeState' = NodeAfter(CtorRan(k - 1))
                 /\ ctorError' = "none"
                 /\ lastExit' = "none"
            ELSE /\ pc' = "unwound"
                 /\ nodeState' = "none"
                 /\ ctorError' = CtorFailure(CtorOrder[k])
                 /\ lastExit' = "throw"
  /\ callKind' = "construct"
  /\ UNCHANGED << mQueueLenght, mOpened, mSequence, mLastSample, poolInflight, retries,
                  opens, nodeStops, poolDestroys, invoked >>
  /\ UNCHANGED readVars /\ UNCHANGED writeVars /\ UNCHANGED histVars
  /\ UNCHANGED clock

\* ---------------------------------------------------------------- open
\* open(): node_type_start returns nonzero -> RuntimeError thrown to the host
OpenTypeStartFails ==
  /\ pc = "idle" /\ ~mOpened /\ opens < MaxOpens
  /\ opens' = opens + 1
  /\ callKind' = "open"
  /\ lastExit' = "throw"
  /\ retries' = 0
  /\ ResetWriteLocals /\ ResetReadLocals
  /\ UNCHANGED << mQueueLenght, mOpened, mSequence, mLastSample, poolState, poolInflight,
                  nodeState, pc, nodeStops, poolDestroys >>
  /\ UNCHANGED clock
  /\ ShelveTick
  /\ UNCHANGED ctorVars

\* open(): mNode->start() < 0 -> close(); std::exit(1)
OpenNodeStartFails ==
  /\ pc = "idle" /\ ~mOpened /\ opens < MaxOpens
  /\ opens' = opens + 1
  /\ callKind' = "open"
  /\ lastExit' = "none"
  /\ retries' = 0
  /\ ResetWriteLocals /\ ResetReadLocals
  /\ nodeStops' = nodeStops + 1
  /\ \E stopOk \in BOOLEAN, destroyOk \in BOOLEAN :
       IF stopOk
         THEN /\ nodeState' = "stopped"
              /\ poolState' = IF destroyOk THEN "destroyed" ELSE poolState
              /\ poolDestroys' = poolDestroys + 1
         ELSE UNCHANGED << nodeState, poolState, poolDestroys >>
  /\ pc' = "exited"
  /\ UNCHANGED << mQueueLenght, mOpened, mSequence, mLastSample, poolInflight >>
  /\ UNCHANGED clock
  /\ DropTicks
  /\ UNCHANGED ctorVars

\* open(): node started, mOpened set, mSequence reset, mLastSample allocated
\* and initialized.  On a pool that close() destroyed the allocation reads
\* freed memory; this is the outcome where the stale pool still answers.
OpenOk ==
  /\ pc = "idle" /\ ~mOpened /\ opens < MaxOpens
  /\ PoolHasFree
  /\ opens' = opens + 1
  /\ callKind' = "open"
  /\ lastExit' = "return"
  /\ retries' = 0
  /\ nodeState' = "started"
  /\ mOpened' = TRUE
  /\ mSequence' = 0
  /\ poolInflight' = poolInflight + 1
  /\ mLastSample' = OpenSample
  /\ sample' = NoSample /\ done' = FALSE /\ ret' = "zero" /\ expIdx' = 1
  /\ handed' = << >> /\ wvAcquired' = 0 /\ wvReleased' = 0 /\ seqBefore' = 0
  /\ ResetReadLocals
  /\ tick' = NoTick /\ prevTick' = NoTick /\ hist' = NoHist
  /\ UNCHANGED << mQueueLenght, poolState, pc, nodeStops, poolDestroys >>
  /\ UNCHANGED clock
  /\ invoked' = << >>
  /\ UNCHANGED ctorVars

\* open(): sample_alloc returned nullptr (no free block) or ran on the
\* destroyed pool; mLastSample->signals = ... faults.
OpenCrash ==
  /\ pc = "idle" /\ ~mOpened /\ opens < MaxOpens
  /\ ~PoolHasFree \/ poolState = "destroyed"
  /\ opens' = opens + 1
  /\ callKind' = "open"
  /\ lastExit' = "none"
  /\ retries' = 0
  /\ nodeState' = "started"
  /\ mOpened' = TRUE
  /\ mSequence' = 0
  /\ sample' = NoSample /\ done' = FALSE /\ ret' = "zero" /\ expIdx' = 1
  /\ handed' = << >> /\ wvAcquired' = 0 /\ wvReleased' = 0 /\ seqBefore' = 0
  /\ ResetReadLocals
  /\ pc' = "crashed"
  /\ UNCHANGED << mQueueLenght, mLastSample, poolState, poolInflight, nodeStops,
                  poolDestroys >>
  /\ UNCHANGED clock
  /\ DropTicks
  /\ invoked' = << >>
  /\ UNCHANGED ctorVars

\* ---------------------------------------------------------------- close
\* close() has no guard of its own: the host may call it on a closed adapter.
\* The stop counter is capped: at most one mNode->stop() more than open() calls.
\* close(): mNode->stop() < 0 -> std::exit(1)
CloseStopFails ==
  /\ pc = "idle" /\ opens > 0 /\ nodeStops <= opens
  /\ callKind' = "close"
  /\ lastExit' = "none"
  /\ retries' = 0
  /\ ResetWriteLocals /\ ResetReadLocals
  /\ nodeStops' = nodeStops + 1
  /\ pc' = "exited"
  /\ UNCHANGED << mQueueLenght, mOpened, mSequence, mLastSample, poolState, poolInflight,
                  nodeState, opens, poolDestroys >>
  /\ UNCHANGED clock
  /\ DropTicks
  /\ UNCHANGED ctorVars

\* close(): node stopped, mOpened cleared, pool_destroy < 0 -> std::exit(1)
CloseDestroyFails ==
  /\ pc = "idle" /\ opens > 0 /\ nodeStops <= opens
  /\ callKind' = "close"
  /\ lastExit' = "none"
  /\ retries' = 0
  /\ ResetWriteLocals /\ ResetReadLocals
  /\ nodeStops' = nodeStops + 1
  /\ nodeState' = "stopped"
  /\ mOpened' = FALSE
  /\ poolDestroys' = poolDestroys + 1
  /\ pc' = "exited"
  /\ UNCHANGED << mQueueLenght, mSequence, mLastSample, poolState, poolInflight, opens >>
  /\ UNCHANGED clock
  /\ DropTicks
  /\ UNCHANGED ctorVars

\* close(): node stopped, mOpened cleared, pool destroyed.  mLastSample is
\* neither released nor reset.
CloseOk ==
  /\ pc = "idle" /\ opens > 0 /\ nodeStops <= opens
  /\ callKind' = "close"
  /\ lastExit' = "return"
  /\ retries' = 0
  /\ ResetWriteLocals /\ ResetReadLocals
  /\ nodeStops' = nodeStops + 1
  /\ nodeState' = "stopped"
  /\ mOpened' = FALSE
  /\ poolDestroys' = poolDestroys + 1
  /\ poolState' = "destroyed"
  /\ UNCHANGED << mQueueLenght, mSequence, mLastSample, poolInflight, pc, opens >>
  /\ UNCHANGED clock
  /\ ShelveTick
  /\ UNCHANGED ctorVars

\* ---------------------------------------------------------------- writeValues
\* writeValues entry: sample = sample_alloc(&mSamplePool) succeeded
WvAlloc ==
  /\ pc = "idle" /\ mOpened
  /\ PoolHasFree
  /\ callKind' = "write"
  /\ lastExit' = "none"
  /\ retries' = 0
  /\ poolInflight' = poolInflight + 1
  /\ sample' = FreshSample
  /\ done' = FALSE
  /\ ret' = "zero"
  /\ expIdx' = 1
  /\ handed' = << >>
  /\ wvAcquired' = 1
  /\ wvReleased' = 0
  /\ seqBefore' = mSequence
  /\ ResetReadLocals
  /\ pc' = "wv_export"
  /\ UNCHANGED << mQueueLenght, mSequence, mLastSample >>
  /\ UNCHANGED lifeVars
  /\ UNCHANGED clock
  /\ ShelveTick
  /\ invoked' = << >>
  /\ UNCHANGED ctorVars

\* writeValues entry: sample_alloc returned nullptr (pool exhausted) or ran
\* on the destroyed pool; sample->signals = ... faults before any write.
WvAllocCrash ==
  /\ pc = "idle" /\ mOpened
  /\ ~PoolHasFree \/ poolState = "destroyed"
  /\ callKind' = "write"
  /\ lastExit' = "none"
  /\ retries' = 0
  /\ ResetWriteLocals /\ ResetReadLocals
  /\ pc' = "crashed"
  /\ UNCHANGED << mQueueLenght, mSequence, mLastSample, poolInflight >>
  /\ UNCHANGED lifeVars
  /\ UNCHANGED clock
  /\ DropTicks
  /\ UNCHANGED ctorVars

\* for (auto exp : mExports) exp(sample): the next exporter writes its slot
WvExport ==
  /\ pc = "wv_export" /\ expIdx <= NumExports
  /\ \E v \in Values : sample' = [sample EXCEPT !.data[SlotOf(ExportAt(expIdx))] = v]
  /\ expIdx' = expIdx + 1
  /\ UNCHANGED << mQueueLenght, mSequence, mLastSample, poolInflight, pc, callKind,
                  lastExit, retries, done, ret, handed, wvAcquired, wvReleased,
                  seqBefore >>
  /\ UNCHANGED lifeVars /\ UNCHANGED readVars /\ UNCHANGED histVars
  /\ UNCHANGED clock
  /\ invoked' = Append(invoked, ExportAt(expIdx))
  /\ UNCHANGED ctorVars

\* the next exporter raises: control enters the catch block with done = false
WvExportThrows ==
  /\ pc = "wv_export" /\ expIdx <= NumExports
  /\ sample' = CatchSample(done, sample, mLastSample)
  /\ pc' = "wv_fbwrite"
  /\ UNCHANGED << mQueueLenght, mSequence, mLastSample, poolInflight, callKind, lastExit,
                  retries, done, ret, expIdx, handed, wvAcquired, wvReleased, seqBefore >>
  /\ UNCHANGED lifeVars /\ UNCHANGED readVars /\ UNCHANGED histVars
  /\ UNCHANGED clock
  /\ invoked' = Append(invoked, ExportAt(expIdx))
  /\ UNCHANGED ctorVars

\* all exporters ran: sequence, HAS_DATA, clock_gettime, done = true
WvFrame ==
  /\ pc = "wv_export" /\ expIdx > NumExports
  /\ clock' = clock + 1
  /\ sample' = Frame(sample, mSequence, clock')
  /\ mSequence' = NextSequence(mSequence)
  /\ done' = TRUE
  /\ pc' = "wv_write"
  /\ UNCHANGED << mQueueLenght, mLastSample, poolInflight, callKind, lastExit, retries,
                  ret, expIdx, handed, wvAcquired, wvReleased, seqBefore >>
  /\ UNCHANGED lifeVars /\ UNCHANGED readVars /\ UNCHANGED histVars
  /\ UNCHANGED invoked
  /\ UNCHANGED ctorVars

\* do { ret = mNode->write(&sample, 1); } while (ret == 0): the node answers 0
WvWriteBlock ==
  /\ pc = "wv_write" /\ retries < MaxRetry
  /\ handed' = Append(handed, sample)
  /\ sample' = RetrySample(sample)
  /\ ret' = "zero"
  /\ retries' = retries + 1
  /\ UNCHANGED << mQueueLenght, mSequence, mLastSample, poolInflight, pc, callKind,
                  lastExit, done, expIdx, wvAcquired, wvReleased, seqBefore >>
  /\ UNCHANGED lifeVars /\ UNCHANGED readVars /\ UNCHANGED histVars
  /\ UNCHANGED clock
  /\ UNCHANGED invoked
  /\ UNCHANGED ctorVars

\* the node answers a nonzero code: log if negative, then
\* sample_copy(mLastSample, sample) and return.  No sample_decref.
WvWriteDone ==
  /\ pc = "wv_write"
  /\ \E r \in {"pos", "neg"} :
       /\ ret' = r
       /\ handed' = Append(handed, sample)
       /\ EndTick(TickRecord(handed', r, "return"))
  /\ mLastSample' = sample_copy(mLastSample, sample)
  /\ pc' = "idle"
  /\ lastExit' = "return"
  /\ UNCHANGED << mQueueLenght, mSequence, poolInflight, callKind, sample, done,
                  expIdx, wvAcquired, wvReleased, seqBefore >>
  /\ UNCHANGED lifeVars /\ UNCHANGED readVars
  /\ UNCHANGED clock
  /\ retries' = 0
  /\ UNCHANGED invoked
  /\ UNCHANGED ctorVars

\* mNode->write raises: control enters the catch block with done = true and
\* ret = 0 (ret is only assigned when write returns)
WvWriteThrows ==
  /\ pc = "wv_write"
  /\ handed' = Append(handed, sample)
  /\ sample' = CatchSample(done, sample, mLastSample)
  /\ pc' = "wv_fbwrite"
  /\ UNCHANGED << mQueueLenght, mSequence, mLastSample, poolInflight, callKind, lastExit,
                  retries, done, ret, expIdx, wvAcquired, wvReleased, seqBefore >>
  /\ UNCHANGED lifeVars /\ UNCHANGED readVars /\ UNCHANGED histVars
  /\ UNCHANGED clock
  /\ UNCHANGED invoked
  /\ UNCHANGED ctorVars

\* catch block, while (ret == 0) ret = mNode->write(&sample, 1): the node answers 0
WvFbWriteBlock ==
  /\ pc = "wv_fbwrite" /\ ret = "zero" /\ retries < MaxRetry
  /\ handed' = Append(handed, sample)
  /\ retries' = retries + 1
  /\ UNCHANGED << mQueueLenght, mSequence, mLastSample, poolInflight, pc, callKind,
                  lastExit, sample, done, ret, expIdx, wvAcquired, wvReleased, seqBefore >>
  /\ UNCHANGED lifeVars /\ UNCHANGED readVars /\ UNCHANGED histVars
  /\ UNCHANGED clock
  /\ UNCHANGED invoked
  /\ UNCHANGED ctorVars

\* catch block: the node answers a nonzero code: log if negative, return.
\* No sample_copy, no sample_decref.
WvFbWriteDone ==
  /\ pc = "wv_fbwrite" /\ ret = "zero"
  /\ \E r \in {"pos", "neg"} :
       /\ ret' = r
       /\ handed' = Append(handed, sample)
       /\ EndTick(TickRecord(handed', r, "return"))
  /\ pc' = "idle"
  /\ lastExit' = "return"
  /\ UNCHANGED << mQueueLenght, mSequence, mLastSample, poolInflight, callKind, sample, done, expIdx, wvAcquired, wvReleased, seqBefore >>
  /\ UNCHANGED lifeVars /\ UNCHANGED readVars
  /\ UNCHANGED clock
  /\ retries' = 0
  /\ UNCHANGED invoked
  /\ UNCHANGED ctorVars

\* catch block: mNode->write raises inside the handler; nothing catches it
WvFbWriteThrows ==
  /\ pc = "wv_fbwrite" /\ ret = "zero"
  /\ handed' = Append(handed, sample)
  /\ EndTick(TickRecord(handed', "zero", "throw"))
  /\ pc' = "idle"
  /\ lastExit' = "throw"
  /\ UNCHANGED << mQueueLenght, mSequence, mLastSample, poolInflight, callKind, sample, done, ret, expIdx, wvAcquired, wvReleased, seqBefore >>
  /\ UNCHANGED lifeVars /\ UNCHANGED readVars
  /\ UNCHANGED clock
  /\ retries' = 0
  /\ UNCHANGED invoked
  /\ UNCHANGED ctorVars

\* ---------------------------------------------------------------- readValues
\* readValues(blocking) entry: sample = nullptr, ret = 0
RvCall ==
  /\ pc = "idle" /\ mOpened
  /\ callKind' = "read"
  /\ lastExit' = "none"
  /\ retries' = 0
  /\ ResetWriteLocals
  /\ rdHeld' = FALSE /\ rdReleases' = 0 /\ impIdx' = 1 /\ impThrew' = FALSE
  /\ blocking' \in BOOLEAN
  /\ pc' = "rv_read"
  /\ UNCHANGED << mQueueLenght, mSequence, mLastSample, poolInflight >>
  /\ UNCHANGED lifeVars
  /\ UNCHANGED clock
  /\ ShelveTick
  /\ UNCHANGED ctorVars

\* (variant: a call with blocking = false returns on a would-block answer)
RvReadBlock_NonBlocking ==
  /\ pc = "rv_read"
  /\ IF blocking
       THEN /\ retries' = IF retries < MaxRetry THEN retries + 1 ELSE retries
            /\ UNCHANGED << pc, lastExit >>
       ELSE /\ retries' = 0
            /\ pc' = "idle"
            /\ lastExit' = "return"
  /\ UNCHANGED << mQueueLenght, mSequence, mLastSample, poolInflight, callKind >>
  /\ UNCHANGED lifeVars /\ UNCHANGED writeVars /\ UNCHANGED readVars /\ UNCHANGED histVars
  /\ UNCHANGED clock
  /\ UNCHANGED invoked
  /\ UNCHANGED ctorVars

\* while (ret == 0) ret = mNode->read(&sample, 1): the node answers 0 and
\* the loop asks again, whatever blocking is (retries counts up to MaxRetry)
RvReadBlock ==
  /\ pc = "rv_read"
  /\ retries' = IF retries < MaxRetry THEN retries + 1 ELSE retries
  /\ UNCHANGED << mQueueLenght, mSequence, mLastSample, poolInflight, pc, callKind,
                  lastExit >>
  /\ UNCHANGED lifeVars /\ UNCHANGED writeVars /\ UNCHANGED readVars /\ UNCHANGED histVars
  /\ UNCHANGED clock
  /\ UNCHANGED invoked
  /\ UNCHANGED ctorVars

\* the node answers a positive code and has produced a sample
RvReadOk ==
  /\ pc = "rv_read"
  /\ rdHeld' = TRUE
  /\ ret' = "pos"
  /\ pc' = "rv_import"
  /\ UNCHANGED << mQueueLenght, mSequence, mLastSample, poolInflight, callKind, lastExit,
                  rdReleases, impIdx, impThrew, sample, done, expIdx, handed,
                  wvAcquired, wvReleased, seqBefore >>
  /\ UNCHANGED lifeVars /\ UNCHANGED histVars
  /\ UNCHANGED clock
  /\ retries' = 0
  /\ UNCHANGED invoked
  /\ UNCHANGED blocking
  /\ UNCHANGED ctorVars

\* (variant: std::exit(1) without close())
RvReadFails_NoClose ==
  /\ pc = "rv_read"
  /\ ret' = "neg"
  /\ pc' = "exited"
  /\ retries' = 0
  /\ UNCHANGED << mQueueLenght, mSequence, mLastSample, poolInflight, callKind, lastExit,
                  sample, done, expIdx, handed, wvAcquired, wvReleased, seqBefore >>
  /\ UNCHANGED lifeVars /\ UNCHANGED readVars /\ DropTicks
  /\ UNCHANGED clock
  /\ UNCHANGED invoked
  /\ UNCHANGED ctorVars

\* the node answers a negative code: log, close(), std::exit(1)
RvReadFails ==
  /\ pc = "rv_read"
  /\ ret' = "neg"
  /\ nodeStops' = nodeStops + 1
  /\ \E stopOk \in BOOLEAN, destroyOk \in BOOLEAN :
       IF stopOk
         THEN /\ nodeState' = "stopped"
              /\ mOpened' = FALSE
              /\ poolState' = IF destroyOk THEN "destroyed" ELSE poolState
              /\ poolDestroys' = poolDestroys + 1
         ELSE UNCHANGED << nodeState, mOpened, poolState, poolDestroys >>
  /\ pc' = "exited"
  /\ UNCHANGED << mQueueLenght, mSequence, mLastSample, poolInflight, callKind, lastExit,
                  opens, sample, done, expIdx, handed, wvAcquired, wvReleased,
                  seqBefore >>
  /\ UNCHANGED readVars /\ DropTicks
  /\ UNCHANGED clock
  /\ retries' = 0
  /\ UNCHANGED invoked
  /\ UNCHANGED ctorVars

\* mNode->read raises: catch block with sample still nullptr, rethrow
RvReadThrows ==
  /\ pc = "rv_read"
  /\ rdReleases' = rdReleases + CatchReleases(rdHeld)
  /\ pc' = "idle"
  /\ lastExit' = "throw"
  /\ UNCHANGED << mQueueLenght, mSequence, mLastSample, poolInflight, callKind, rdHeld, impIdx, impThrew >>
  /\ UNCHANGED lifeVars /\ UNCHANGED writeVars /\ UNCHANGED histVars
  /\ UNCHANGED clock
  /\ retries' = 0
  /\ UNCHANGED invoked
  /\ blocking' = FALSE
  /\ UNCHANGED ctorVars

\* for (auto imp : mImports) imp(sample): the next importer runs
RvImport ==
  /\ pc = "rv_import" /\ impIdx <= NumImports
  /\ impIdx' = impIdx + 1
  /\ UNCHANGED << mQueueLenght, mSequence, mLastSample, poolInflight, pc, callKind,
                  lastExit, retries, rdHeld, rdReleases, impThrew >>
  /\ UNCHANGED lifeVars /\ UNCHANGED writeVars /\ UNCHANGED histVars
  /\ UNCHANGED clock
  /\ invoked' = Append(invoked, ImportAt(impIdx))
  /\ UNCHANGED blocking
  /\ UNCHANGED ctorVars

\* the next importer raises: the catch block releases the sample and rethrows
RvImportThrows ==
  /\ pc = "rv_import" /\ impIdx <= NumImports
  /\ impThrew' = TRUE
  /\ rdReleases' = rdReleases + CatchReleases(rdHeld)
  /\ pc' = "idle"
  /\ lastExit' = "throw"
  /\ UNCHANGED << mQueueLenght, mSequence, mLastSample, poolInflight, callKind, retries,
                  rdHeld, impIdx >>
  /\ UNCHANGED lifeVars /\ UNCHANGED writeVars /\ UNCHANGED histVars
  /\ UNCHANGED clock
  /\ invoked' = Append(invoked, ImportAt(impIdx))
  /\ blocking' = FALSE
  /\ UNCHANGED ctorVars

\* all importers ran: sample_decref(sample), return
RvReturn ==
  /\ pc = "rv_import" /\ impIdx > NumImports
  /\ rdReleases' = rdReleases + ReturnReleases
  /\ pc' = "idle"
  /\ lastExit' = "return"
  /\ UNCHANGED << mQueueLenght, mSequence, mLastSample, poolInflight, callKind, retries,
                  rdHeld, impIdx, impThrew >>
  /\ UNCHANGED lifeVars /\ UNCHANGED writeVars /\ UNCHANGED histVars
  /\ UNCHANGED clock
  /\ UNCHANGED invoked
  /\ blocking' = FALSE
  /\ UNCHANGED ctorVars

\* ---------------------------------------------------------------- specification
Next ==
  \/ ConstructOk \/ ConstructFails
  \/ OpenTypeStartFails \/ OpenNodeStartFails \/ OpenOk \/ OpenCrash
  \/ CloseStopFails \/ CloseDestroyFails \/ CloseOk
  \/ WvAlloc \/ WvAllocCrash \/ WvExport \/ WvExportThrows \/ WvFrame
  \/ WvWriteBlock \/ WvWriteDone \/ WvWriteThrows
  \/ WvFbWriteBlock \/ WvFbWriteDone \/ WvFbWriteThrows
  \/ RvCall \/ RvReadBlock \/ RvReadOk \/ RvReadFails \/ RvReadThrows
  \/ RvImport \/ RvImportThrows \/ RvReturn

Spec == Init /\ [][Next]_vars

\* the node answers a read or a write with a nonzero code
NodeAnswers == WvWriteDone \/ WvFbWriteDone \/ RvReadOk \/ RvReadFails

\* the call in progress runs its next hook or statement
CallSteps == WvExport \/ WvExportThrows \/ WvFrame \/ RvImport \/ RvImportThrows \/ RvReturn

\* the constructor arguments explored under fairness
FairInit == Init /\ mQueueLenght <= MaxFairQueueLenght

\* the node eventually answers with a nonzero code, and a running call keeps
\* running
FairSpec ==
  FairInit /\ [][Next]_vars /\ WF_vars(NodeAnswers) /\ WF_vars(CallSteps)

TypeOK ==
  /\ mQueueLenght \in 1..MaxQueueLenght
  /\ mOpened \in BOOLEAN
  /\ mSequence \in Nat
  /\ poolState \in {"none", "initialized", "destroyed"}
  /\ poolInflight \in 0..mQueueLenght
  /\ nodeState \in {"none", "created", "parsed", "checked", "prepared", "started",
                   "stopped"}
  /\ pc \in {"new", "unwound", "idle", "wv_export", "wv_write", "wv_fbwrite", "rv_read",
             "rv_import", "exited", "crashed"}
  /\ ret \in {"zero", "pos", "neg"}
  /\ ctorError \in {"none", "JsonError", "RuntimeError"}
  /\ blocking \in BOOLEAN
  /\ Len(invoked) <= NumHooks

\* ---------------------------------------------------------------- properties
\* a writeValues call has just ended by returning or by throwing
WvEnded == callKind = "write" /\ pc = "idle" /\ tick # NoTick

\* a readValues call has just ended by returning or by throwing
RvEnded == callKind = "read" /\ pc = "idle"

\* C1 (as claimed): the successful writeValues calls since open (framed, node
\* write answered a positive code) carry 0, 1, 2, ... in call order with no
\* number skipped: the sample of a successful call carries the number of
\* successful calls before it.
C1_SuccessfulNumberedFromZero ==
  (WvEnded /\ tick.framed /\ tick.ret = "pos")
    => tick.smp.sequence = tick.histIn.nSucc

\* C1 (amended): since open, the k-th writeValues call that completes framing
\* carries k-1, whatever its node write answers; so the successful calls
\* carry strictly increasing numbers >= 0, and a call whose write answered a
\* negative code has used up its number while a call whose exporter threw
\* used none.
C1_FramedNumberedInOrder ==
  WvEnded =>
    /\ tick.framed =>
         /\ tick.smp.sequence = tick.histIn.nFramed
         /\ tick.seqOut = tick.seqIn + 1
         /\ tick.ret = "pos" => /\ tick.smp.sequence > tick.histIn.lastSucc
                                /\ tick.smp.sequence >= tick.histIn.nSucc
    /\ ~tick.framed => tick.seqOut = tick.seqIn

\* C1 witness: a successful call carries 1 although no call succeeded before
\* it (the call before framed 0 and its write failed).
C1_Witness ==
  /\ WvEnded /\ tick.framed /\ tick.ret = "pos"
  /\ tick.smp.sequence = 1 /\ tick.histIn.nSucc = 0 /\ tick.histIn.nFramed = 1

\* C2: every sample acquired from the pool inside writeValues is released
\* exactly once on every exit path, so after the call no sample of the call
\* is in flight.
C2_ReleasedOnEveryExit ==
  WvEnded => wvReleased = wvAcquired

\* C3: every sample passed to the node's write has the HAS_DATA flag set,
\* the Last-Known-Good substitute included.
C3_HandedHasData ==
  \A i \in 1..Len(handed) : HAS_DATA \in handed[i].flags

\* C4: every writeValues call on an open adapter has passed at least one
\* sample to the node's write when it is over, after any number of earlier
\* calls.
C4_HandsSampleEveryCall ==
  (callKind = "write" /\ pc \in {"idle", "crashed"}) => Len(handed) >= 1

\* C5: writeValues never surfaces an error to the host: whatever failed, the
\* call returns normally.
C5_WriteReturnsNormally ==
  (callKind = "write" /\ pc = "idle") => lastExit = "return"

\* C6: in a call whose exporter threw, the sample passed to the node's write
\* equals (data and sequence number) the one passed in the previous call,
\* and the sequence counter is not advanced.
C6_FallbackEqualsPrevious ==
  (WvEnded /\ ~tick.framed /\ prevTick # NoTick) =>
    /\ tick.smp.data = prevTick.smp.data
    /\ tick.smp.sequence = prevTick.smp.sequence
    /\ tick.seqOut = tick.seqIn

\* C7: after a writeValues call whose node write answered a positive code,
\* in the first retry loop or in the retry loop of the catch block, the
\* Last-Known-Good sample equals the sample that was submitted.
C7_LastEqualsSubmitted ==
  (WvEnded /\ tick.ret = "pos") => mLastSample = tick.smp

\* C8 (as claimed): across all calls since open, fallbacks included, the
\* sample passed to the node's write carries a larger sequence number than
\* every sample passed before.
C8_HandedStrictlyIncreasing ==
  WvEnded => tick.smp.sequence > tick.histIn.maxHanded

\* C8 (amended): across the calls since open, the freshly framed samples
\* carry strictly increasing sequence numbers; a call that falls back sends
\* the Last-Known-Good sample with the number that sample already has, which
\* is no new number.
C8_FramedStrictlyIncreasing ==
  WvEnded =>
    IF tick.framed
      THEN tick.smp.sequence > tick.histIn.maxFramed
      ELSE /\ tick.smp.sequence = mLastSample.sequence
           /\ tick.smp.sequence <= Max(tick.histIn.maxFramed, 0)

\* C8 witness: a fallback call has put the number of the last framed sample
\* on the bus again.
C8_Witness ==
  /\ WvEnded /\ ~tick.framed
  /\ tick.histIn.maxFramed >= 0
  /\ tick.smp.sequence = tick.histIn.maxHanded

\* C9: with queue_length = 1, construct, open, writeValues succeeds:
\* writeValues obtains a sample from the pool and submits it.
C9_QueueOneWriteSucceeds ==
  (mQueueLenght = 1 /\ poolState = "initialized" /\ callKind = "write")
    => pc # "crashed"

\* C10: in readValues, once the node's read has produced a sample, it is
\* released exactly once on both exit paths: after all importers ran on
\* success, and before the rethrow when an importer raises; the importer's
\* error reaches the host.
C10_ReadSampleReleasedOnce ==
  (callKind = "read" /\ rdHeld) =>
    /\ pc = "rv_import" => rdReleases = 0
    /\ pc = "idle" => rdReleases = 1
    /\ (pc = "idle" /\ impThrew) => lastExit = "throw"
    /\ (pc = "idle" /\ ~impThrew) => (lastExit = "return" /\ impIdx = NumImports + 1)

\* C10 witness: an importer raised, the sample was released once and the
\* error reached the host.
C10_Witness ==
  /\ RvEnded /\ rdHeld /\ impThrew
  /\ rdReleases = 1 /\ lastExit = "throw"

\* C11: if an exporter throws in the first writeValues call after open, the
\* sample passed to the node's write is the open-time Last-Known-Good sample
\* (all data zero, sequence 0, origin timestamp 0) and the sequence counter
\* is not incremented, so the next sample that is framed carries sequence 0.
C11_FirstTickFallbackSendsOpenSample ==
  /\ (WvEnded /\ ~tick.framed /\ tick.histIn.maxHanded = -1) =>
       /\ \A i \in 1..Len(handed) :
            /\ handed[i].sequence = 0
            /\ handed[i].ts = 0
            /\ \A s \in Slots : handed[i].data[s] = 0
       /\ mSequence = 0
       /\ tick.seqOut = tick.seqIn
  /\ (pc = "wv_write" /\ hist.nFramed = 0) => sample.sequence = 0

\* C11 witness: the first call after open fell back because its exporter
\* threw, and the node's write has taken the substitute.
C11_Witness ==
  /\ WvEnded /\ ~tick.framed /\ tick.histIn.maxHanded = -1
  /\ tick.ret = "pos" /\ tick.smp.ts = 0 /\ mSequence = 0

\* every hook of hooks is in log exactly once
EachOnce(log, hooks) ==
  /\ Len(log) = Len(hooks)
  /\ \A i \in 1..Len(hooks) : \E j \in 1..Len(log) : log[j] = hooks[i]

\* C12: when the node's write answers 0 k times and then a positive code in
\* one writeValues call, exactly one sample is framed, that same sample is
\* passed to the node's write k+1 times, every exporter ran once, and the
\* sequence counter has advanced by exactly one.
C12_RetryResendsOneSample ==
  /\ pc = "wv_write" =>
       /\ Len(handed) = retries
       /\ \A i \in 1..Len(handed) : handed[i] = sample
       /\ EachOnce(invoked, mExports)
       /\ wvAcquired = 1
       /\ mSequence = seqBefore + 1
  /\ (WvEnded /\ ~tick.viaCatch /\ tick.ret = "pos") =>
       /\ tick.framed
       /\ wvAcquired = 1
       /\ Len(handed) = tick.zeros + 1
       /\ \A i \in 1..Len(handed) : handed[i] = tick.smp
       /\ tick.smp.sequence = tick.seqIn
       /\ EachOnce(invoked, mExports)
       /\ tick.seqOut = tick.seqIn + 1

\* C12 witness: the node's write answered 0 and then a positive code, and the
\* one framed sample was passed twice.
C12_Witness ==
  /\ WvEnded /\ ~tick.viaCatch /\ tick.ret = "pos"
  /\ tick.zeros >= 1 /\ Len(handed) = tick.zeros + 1
  /\ handed[1] = handed[Len(handed)]

\* a step that is a call of close() on an adapter in state idle
CloseStep == pc = "idle" /\ callKind' = "close" /\ nodeStops' # nodeStops

\* C13: close on an adapter that is already closed is a no-op or a structured
\* error: it neither stops the node again nor destroys the already destroyed
\* sample pool again.
C13_SecondCloseIsNoOp ==
  [][(CloseStep /\ ~mOpened /\ nodeState = "stopped" /\ poolState = "destroyed")
       => (nodeStops' = nodeStops /\ poolDestroys' = poolDestroys)]_vars

\* C14: whenever the adapter is marked opened, one node handle and one live
\* (initialized, not destroyed) sample pool exist, also when it was opened
\* again after close; and after close both are destroyed.
C14_OpenedHasNodeAndLivePool ==
  /\ mOpened => (nodeState \notin {"none"} /\ poolState = "initialized")
  /\ (callKind = "close" /\ pc = "idle") => (nodeState = "none" /\ poolState = "destroyed")

\* C15: the Last-Known-Good sample lives as long as the adapter is open: it is
\* non-null whenever the adapter is marked opened, it is acquired from the
\* pool once at open, and close gives it back to the pool.
C15_LastSampleLivesWhileOpen ==
  /\ [](mOpened => mLastSample # NoSample)
  /\ [][(pc = "idle" /\ callKind' = "open" /\ mOpened')
          => poolInflight' = poolInflight + 1]_vars
  /\ [][(CloseStep /\ mOpened /\ pc' = "idle")
          => (poolInflight' = poolInflight - 1 /\ mLastSample' = NoSample)]_vars

\* the calls the constructor has made
CtorCalled == { ctorSteps[i] : i \in 1..Len(ctorSteps) }

\* the constructor threw because json_loads failed
JsonFailed ==
  pc = "unwound" /\ Len(ctorSteps) >= 1 /\ ctorSteps[Len(ctorSteps)] = "json_loads"

C17_CopiedOnlyOnPositiveWrite ==
  [][(pc = "wv_write" /\ pc' = "idle" /\ ret' = "neg") => mLastSample' = mLastSample]_vars

\* C18 (as claimed): after a negative read no importer was invoked, the
\* adapter is closed (node stopped, pool destroyed, marked not opened) and the
\* process has terminated.
C18_NegativeReadClosesAndExits ==
  (callKind = "read" /\ ret = "neg") =>
    /\ pc = "exited"
    /\ invoked = << >> /\ impIdx = 1
    /\ nodeState = "stopped" /\ poolState = "destroyed" /\ ~mOpened

\* C18 (amended): on a negative read no importer is invoked, close() is
\* called and the process terminates, so readValues never returns.  close()
\* calls the node's stop; only if that succeeds is the adapter marked not
\* opened and pool_destroy called; if stop fails the process terminates with
\* the adapter still marked opened and the pool not destroyed.
C18_NegativeReadCallsCloseAndExits ==
  /\ [][(pc = "rv_read" /\ ret' = "neg") =>
          /\ pc' = "exited"
          /\ invoked' = << >> /\ impIdx' = 1
          /\ nodeStops' = nodeStops + 1
          /\ IF nodeState' = "stopped"
               THEN ~mOpened' /\ poolDestroys' = poolDestroys + 1
               ELSE /\ mOpened' = mOpened
                    /\ poolDestroys' = poolDestroys
                    /\ poolState' = poolState]_vars
  /\ [][pc = "exited" => pc' = "exited"]_vars

\* C18 witness: the process terminated after a negative read with the adapter
\* still marked opened, the node's stop having failed inside close().
C18_Witness ==
  /\ callKind = "read" /\ ret = "neg" /\ pc = "exited"
  /\ nodeStops >= 1 /\ mOpened /\ nodeState = "started"

\* a readValues or writeValues call is in progress
InCall == pc \in {"wv_export", "wv_write", "wv_fbwrite", "rv_read", "rv_import"}

\* C19: if the node eventually answers a read or write with a nonzero code,
\* every readValues and writeValues call eventually completes (returns,
\* rethrows or terminates the process); and readValues leaves its read loop
\* only on a nonzero answer or an exception, never on a 0 answer, whatever
\* blocking is.
C19_CallsCompleteUnderFairness ==
  /\ InCall ~> ~InCall
  /\ [][(pc = "rv_read" /\ pc' # "rv_read")
          => (ret' \in {"pos", "neg"} \/ lastExit' = "throw")]_vars

\* C19 witness: a readValues call with blocking = false is still in its read
\* loop after the node answered 0.
C19_Witness ==
  pc = "rv_read" /\ ~blocking /\ retries >= 1

\* log is the first Len(log) hooks of hooks, in order
InOrderPrefix(log, hooks) ==
  /\ Len(log) <= Len(hooks)
  /\ \A i \in 1..Len(log) : log[i] = hooks[i]

\* C20 (as claimed): in a writeValues call every registered exporter has been
\* invoked exactly once, in registration order, when the node's write is
\* first called; in a readValues call every registered importer has been
\* invoked exactly once, in registration order, when the sample is released.
C20_AllHooksOnceInOrder ==
  /\ (callKind = "write" /\ Len(handed) >= 1) =>
       (Len(invoked) = NumExports /\ InOrderPrefix(invoked, mExports))
  /\ (callKind = "read" /\ rdReleases >= 1) =>
       (Len(invoked) = NumImports /\ InOrderPrefix(invoked, mImports))

\* C20 (amended): hooks run in registration order, each at most once per
\* call, exporters before the first node write and importers after a
\* positive read and before the release.  If no hook raises, every one has
\* run exactly once by then; if the k-th hook raises, hooks 1..k have run and
\* the later ones are not invoked in that call, although the node's write is
\* still called (with the Last-Known-Good sample) and the sample read is
\* still released.
C20_HooksInOrderUntilOneRaises ==
  /\ callKind = "write" =>
       /\ InOrderPrefix(invoked, mExports)
       /\ pc = "wv_export" => (handed = << >> /\ Len(invoked) = expIdx - 1)
       /\ (Len(handed) >= 1 /\ done) => Len(invoked) = NumExports
       /\ (Len(handed) >= 1 /\ ~done) => (Len(invoked) = expIdx /\ expIdx <= NumExports)
  /\ callKind = "read" =>
       /\ InOrderPrefix(invoked, mImports)
       /\ pc = "rv_import" =>
            (ret = "pos" /\ rdHeld /\ rdReleases = 0 /\ Len(invoked) = impIdx - 1)
       /\ pc = "rv_read" => invoked = << >>
       /\ (rdReleases >= 1 /\ ~impThrew) => Len(invoked) = NumImports
       /\ (rdReleases >= 1 /\ impThrew) => (Len(invoked) = impIdx /\ impIdx <= NumImports)

\* C20 witness: the first exporter raised, the second was never invoked and
\* the node's write was called all the same.
C20_Witness ==
  /\ callKind = "write" /\ pc = "idle" /\ ~done
  /\ Len(handed) >= 1 /\ Len(invoked) = 1 /\ NumExports >= 2

====
